---- MODULE Spec2Model ----
(***************************************************************************)
(* Model of the subscription tracker (4iner/subscription-mgmt).            *)
(*                                                                         *)
(*  - the renewal helpers of src/components/SubscriptionForm.tsx           *)
(*    (calculateNextRenewalDate, calculateNextRenewalFromCurrent), built   *)
(*    on the JavaScript Date setters setDate / setMonth / setFullYear;     *)
(*  - the edit/add form that calls them (frequency buttons, the            *)
(*    useEffect on [frequency, subscription], handleSubmit);               *)
(*  - the monthly totals of src/app/totals.tsx (calculateTotals).          *)
(*                                                                         *)
(* Dates are modelled at day granularity as the fields a JavaScript Date   *)
(* exposes through getFullYear / getMonth (0..11) / getDate (1..31).       *)
(* Amounts are exact rationals <<num, den>>; the rounding of IEEE doubles   *)
(* is not modelled.                                                        *)
(***************************************************************************)
EXTENDS Integers, Sequences, FiniteSets, TLC

VARIABLES
    \* ---- renewal helpers applied as pure functions
    freqArg,          \* the frequency argument
    fromDate,         \* the anchor date argument
    nextDate,         \* result of calculateNextRenewalDate, or NoDate
    nextFromCurrent,  \* result of calculateNextRenewalFromCurrent, or NoDate
    \* ---- SubscriptionForm component
    now,              \* the wall clock (what new Date() returns)
    mounted,          \* TRUE while the form component is mounted
    subscription,     \* the subscription prop, or NoSubscription
    frequency,        \* useState frequency
    renewalDate,      \* useState renewalDate
    openedAt,         \* value of the clock when the form was mounted
    ticks,            \* days the clock advanced since the form was mounted
    pickedDate,       \* TRUE once the user picked a date in the calendar
    lastEvent,        \* the last handler that ran in the form
    submitted,        \* the data last passed to onSubmit, or NoSubmit
    selectedIcon,     \* useState selectedIcon
    \* ---- Totals screen
    stored,           \* the list AsyncStorage holds under 'subscriptions'
    loaded,           \* TRUE once loadSubscriptions and the totals effect ran
    subscriptions,    \* useState subscriptions
    totals,           \* useState totals
    \* ---- Index screen
    indexSubscriptions,   \* useState subscriptions of Index
    isFormVisible,        \* useState isFormVisible
    editingSubscription,  \* useState editingSubscription, or NoEditing
    storageItem,          \* what AsyncStorage holds under 'subscriptions'
    pendingLoad,          \* the getItem issued at mount, while not resolved
    pendingWrites,        \* the setItem calls issued and not yet performed
    saves,                \* number of saveSubscriptions calls made so far
    lastOp,               \* the last handler that ran on Index, with its inputs
    \* ---- SubscriptionForm: name field and icon search
    name,             \* useState name, a sequence of characters
    iconResults,      \* useState iconResults
    searchTimeout,    \* useState searchTimeout: a timer id, or NoTimer
    isSearching,      \* useState isSearching
    noIconFound,      \* useState noIconFound
    timers,           \* the timers setTimeout started that are still pending
    timerCount,       \* number of timers setTimeout has started
    \* ---- SubscriptionForm: price field
    priceText,        \* useState price, a sequence of characters
    \* ---- SubscriptionForm: mobile date picker
    showDatePicker,   \* useState showDatePicker
    currentMonth,     \* useState currentMonth
    pressedDate       \* the calendar day the last handler was given, or NoDate

helperVars == <<freqArg, fromDate, nextDate, nextFromCurrent>>
formVars   == <<now, mounted, subscription, frequency, renewalDate, openedAt,
                ticks, pickedDate, lastEvent, submitted, selectedIcon>>
totalsVars == <<stored, loaded, subscriptions, totals>>
indexVars  == <<indexSubscriptions, isFormVisible, editingSubscription, storageItem,
                pendingLoad, pendingWrites, saves, lastOp>>
searchVars == <<name, iconResults, searchTimeout, isSearching, noIconFound, timers,
                timerCount>>
pickerVars == <<showDatePicker, currentMonth, pressedDate>>
fieldVars  == <<searchVars, priceText, pickerVars>>
vars       == <<helperVars, formVars, totalsVars, indexVars, fieldVars>>

-----------------------------------------------------------------------------
(* Bounds *)

MinYear  == 2023      \* first calendar year of the date universe
MaxYear  == 2025      \* last calendar year from which an anchor is drawn
MaxTicks == 2         \* days the wall clock may advance while the form is open
MaxSubs  == 2         \* longest subscription list given to calculateTotals
MaxSaves == 2         \* saveSubscriptions calls made on the index screen
MaxName  == 2         \* longest text typed into the name field
MaxPrice == 3         \* longest text typed into the price field, pastes apart
MaxTimers == 3        \* timers started by the name field

-----------------------------------------------------------------------------
(* JavaScript Date, day granularity *)

NoDate == [year |-> 0, month |-> 0, date |-> 0]

IsLeapYear(y) == (y % 4 = 0 /\ y % 100 # 0) \/ y % 400 = 0

\* number of days of month m (0 = January) of year y
DaysInMonth(y, m) ==
    IF m = 1 THEN (IF IsLeapYear(y) THEN 29 ELSE 28)
    ELSE IF m \in {3, 5, 8, 10} THEN 30
    ELSE 31

\* ECMAScript MakeDay: month overflow is carried into the year, then day
\* overflow (or underflow) is carried into the following (preceding) months.
RECURSIVE CarryDays(_, _, _)
CarryDays(y, m, d) ==
    IF d > DaysInMonth(y, m)
    THEN IF m = 11 THEN CarryDays(y + 1, 0, d - DaysInMonth(y, m))
                   ELSE CarryDays(y, m + 1, d - DaysInMonth(y, m))
    ELSE IF d < 1
    THEN IF m = 0 THEN CarryDays(y - 1, 11, d + DaysInMonth(y - 1, 11))
                  ELSE CarryDays(y, m - 1, d + DaysInMonth(y, m - 1))
    ELSE [year |-> y, month |-> m, date |-> d]

MakeDay(y, m, d) == CarryDays(y + (m \div 12), m % 12, d)

\* Date.prototype.setDate / setMonth / setFullYear (local time)
setDate(dt, d)     == MakeDay(dt.year, dt.month, d)
setMonth(dt, m)    == MakeDay(dt.year, m, dt.date)
setFullYear(dt, y) == MakeDay(y, dt.month, dt.date)

\* dt1 < dt2 on Date objects
DateLess(a, b) ==
    \/ a.year < b.year
    \/ a.year = b.year /\ a.month < b.month
    \/ a.year = b.year /\ a.month = b.month /\ a.date < b.date

-----------------------------------------------------------------------------
(* Frequencies *)

FREQUENCIES == {"monthly", "yearly", "quarterly", "weekly", "bi-weekly", "semi-annual"}

\* values a caller can pass that are outside the Frequency type
UnknownFrequencies == {"unknown-frequency", "daily"}

\* a bug a frequency table can plausibly have: the yearly case forgets the + 1
calculateNextRenewalDate_yearlySame(freq, from) ==
    IF freq = "weekly" THEN setDate(from, from.date + 7)
    ELSE IF freq = "bi-weekly" THEN setDate(from, from.date + 14)
    ELSE IF freq = "monthly" THEN setMonth(from, from.month + 1)
    ELSE IF freq = "quarterly" THEN setMonth(from, from.month + 3)
    ELSE IF freq = "semi-annual" THEN setMonth(from, from.month + 6)
    ELSE IF freq = "yearly" THEN setFullYear(from, from.year)
    ELSE setMonth(from, from.month + 1)

\* bi-weekly copied from weekly without changing the offset
calculateNextRenewalDate_biweekly7(freq, from) ==
    IF freq = "weekly" THEN setDate(from, from.date + 7)
    ELSE IF freq = "bi-weekly" THEN setDate(from, from.date + 7)
    ELSE IF freq = "monthly" THEN setMonth(from, from.month + 1)
    ELSE IF freq = "quarterly" THEN setMonth(from, from.month + 3)
    ELSE IF freq = "semi-annual" THEN setMonth(from, from.month + 6)
    ELSE IF freq = "yearly" THEN setFullYear(from, from.year + 1)
    ELSE setMonth(from, from.month + 1)

\* the switch without its default branch
calculateNextRenewalFromCurrent_noDefault(freq, current) ==
    IF freq = "weekly" THEN setDate(current, current.date + 7)
    ELSE IF freq = "bi-weekly" THEN setDate(current, current.date + 14)
    ELSE IF freq = "monthly" THEN setMonth(current, current.month + 1)
    ELSE IF freq = "quarterly" THEN setMonth(current, current.month + 3)
    ELSE IF freq = "semi-annual" THEN setMonth(current, current.month + 6)
    ELSE IF freq = "yearly" THEN setFullYear(current, current.year + 1)
    ELSE current

calculateNextRenewalDate(freq, from) ==
    IF freq = "weekly" THEN setDate(from, from.date + 7)
    ELSE IF freq = "bi-weekly" THEN setDate(from, from.date + 14)
    ELSE IF freq = "monthly" THEN setMonth(from, from.month + 1)
    ELSE IF freq = "quarterly" THEN setMonth(from, from.month + 3)
    ELSE IF freq = "semi-annual" THEN setMonth(from, from.month + 6)
    ELSE IF freq = "yearly" THEN setFullYear(from, from.year + 1)
    ELSE setMonth(from, from.month + 1)

calculateNextRenewalFromCurrent(freq, current) ==
    IF freq = "weekly" THEN setDate(current, current.date + 7)
    ELSE IF freq = "bi-weekly" THEN setDate(current, current.date + 14)
    ELSE IF freq = "monthly" THEN setMonth(current, current.month + 1)
    ELSE IF freq = "quarterly" THEN setMonth(current, current.month + 3)
    ELSE IF freq = "semi-annual" THEN setMonth(current, current.month + 6)
    ELSE IF freq = "yearly" THEN setFullYear(current, current.year + 1)
    ELSE setMonth(current, current.month + 1)

-----------------------------------------------------------------------------
(* The helpers applied to every frequency value and anchor date *)

Date(y, m, d) == [year |-> y, month |-> m, date |-> d]

\* every calendar date of the years MinYear..MaxYear
AnchorDates ==
    { dt \in { Date(y, m, d) : y \in MinYear..MaxYear, m \in 0..11, d \in 1..31 } :
        dt.date <= DaysInMonth(dt.year, dt.month) }

FrequencyValues == FREQUENCIES \cup UnknownFrequencies

\* Date objects by reference: objs maps the name of an object to its value.
\* "const nextDate = fromDate": the second name refers to the argument itself
newDate_alias(objs, src) == [ref |-> src, objs |-> objs]

\* "const nextDate = new Date(fromDate)": a new object with the same value
newDate(objs, src) == [ref |-> "nextDate", objs |-> ("nextDate" :> objs[src]) @@ objs]

\* a call of calculateNextRenewalDate: the setters write the object nextDate
\* refers to; result is the object returned, argument the caller's object
CallNextRenewalDate(freq, from) ==
    LET made == newDate([fromDate |-> from], "fromDate")
        objs == [made.objs EXCEPT
                    ![made.ref] = calculateNextRenewalDate(freq, made.objs[made.ref])]
    IN  [result |-> objs[made.ref], argument |-> objs["fromDate"]]

CallNextRenewalFromCurrent(freq, current) ==
    LET made == newDate([fromDate |-> current], "fromDate")
        objs == [made.objs EXCEPT
                    ![made.ref] = calculateNextRenewalFromCurrent(freq, made.objs[made.ref])]
    IN  [result |-> objs[made.ref], argument |-> objs["fromDate"]]

ApplyNextRenewalDate ==
    /\ nextDate' = CallNextRenewalDate(freqArg, fromDate).result
    /\ fromDate' = CallNextRenewalDate(freqArg, fromDate).argument
    /\ UNCHANGED <<freqArg, nextFromCurrent, formVars, totalsVars, indexVars, fieldVars>>

ApplyNextRenewalFromCurrent ==
    /\ nextFromCurrent' = CallNextRenewalFromCurrent(freqArg, fromDate).result
    /\ fromDate' = CallNextRenewalFromCurrent(freqArg, fromDate).argument
    /\ UNCHANGED <<freqArg, nextDate, formVars, totalsVars, indexVars, fieldVars>>

-----------------------------------------------------------------------------
(* SubscriptionForm: frequency buttons, the frequency effect, submit *)

\* setTimeout never returns 0
NoTimer == 0

\* Texts are sequences of characters. String.prototype.toLowerCase
toLowerCase(text) == [ i \in 1..Len(text) |-> IF text[i] = "N" THEN "n" ELSE text[i] ]

IsSpace(c) == c = " "

RECURSIVE trimStart(_)
trimStart(text) ==
    IF text # <<>> /\ IsSpace(Head(text)) THEN trimStart(Tail(text)) ELSE text

RECURSIVE trimEnd(_)
trimEnd(text) ==
    IF text # <<>> /\ IsSpace(text[Len(text)])
    THEN trimEnd(SubSeq(text, 1, Len(text) - 1))
    ELSE text

\* String.prototype.trim
trim(text) == trimEnd(trimStart(text))

\* searchTerm.replace(/\s+/g, '')
removeWhitespace(text) == SelectSeq(text, LAMBDA c : ~IsSpace(c))

\* `https://logo.clearbit.com/${cleanName}.com?size=64`
LogoUrl(cleanName) == <<"https://logo.clearbit.com/">> \o cleanName \o <<".com?size=64">>

\* Decimal numbers as parseFloat reads them and Number.prototype.toString
\* writes them: a sign, the digits before the point without leading zeros and
\* the digits after it without trailing zeros; NaN and Infinity apart.
DecimalDigits == { "0", "1", "2", "3", "4", "5", "6", "7", "8", "9" }

\* the longest prefix of text made of digits
digitPrefix(text) ==
    LET stops == { i \in 1..Len(text) : text[i] \notin DecimalDigits } IN
    IF stops = {}
    THEN text
    ELSE SubSeq(text, 1, (CHOOSE i \in stops : \A j \in stops : i <= j) - 1)

RECURSIVE dropLeadingZeros(_)
dropLeadingZeros(digits) ==
    IF digits # <<>> /\ Head(digits) = "0" THEN dropLeadingZeros(Tail(digits)) ELSE digits

RECURSIVE dropTrailingZeros(_)
dropTrailingZeros(digits) ==
    IF digits # <<>> /\ digits[Len(digits)] = "0"
    THEN dropTrailingZeros(SubSeq(digits, 1, Len(digits) - 1))
    ELSE digits

NaNNumber == [kind |-> "NaN", negative |-> FALSE, int |-> <<>>, frac |-> <<>>]
InfinityNumber(neg) == [kind |-> "Infinity", negative |-> neg, int |-> <<>>, frac |-> <<>>]
DecimalNumber(neg, int, frac) ==
    [kind |-> "number", negative |-> neg,
     int |-> dropLeadingZeros(int), frac |-> dropTrailingZeros(frac)]
ZeroNumber == DecimalNumber(FALSE, <<>>, <<>>)

DigitValue ==
    [ c \in DecimalDigits |->
        CHOOSE v \in 0..9 : <<"0", "1", "2", "3", "4", "5", "6", "7", "8", "9">>[v + 1] = c ]

\* 2^1024 - 2^970, halfway between Number.MAX_VALUE and 2^1024: a decimal
\* rounds to a finite double exactly when it is below this integer
DoubleOverflow ==
    <<
       "1", "7", "9", "7", "6", "9", "3", "1", "3", "4", "8", "6", "2", "3", "1", "5",
       "8", "0", "7", "9", "3", "7", "2", "8", "9", "7", "1", "4", "0", "5", "3", "0",
       "3", "4", "1", "5", "0", "7", "9", "9", "3", "4", "1", "3", "2", "7", "1", "0",
       "0", "3", "7", "8", "2", "6", "9", "3", "6", "1", "7", "3", "7", "7", "8", "9",
       "8", "0", "4", "4", "4", "9", "6", "8", "2", "9", "2", "7", "6", "4", "7", "5",
       "0", "9", "4", "6", "6", "4", "9", "0", "1", "7", "9", "7", "7", "5", "8", "7",
       "2", "0", "7", "0", "9", "6", "3", "3", "0", "2", "8", "6", "4", "1", "6", "6",
       "9", "2", "8", "8", "7", "9", "1", "0", "9", "4", "6", "5", "5", "5", "5", "4",
       "7", "8", "5", "1", "9", "4", "0", "4", "0", "2", "6", "3", "0", "6", "5", "7",
       "4", "8", "8", "6", "7", "1", "5", "0", "5", "8", "2", "0", "6", "8", "1", "9",
       "0", "8", "9", "0", "2", "0", "0", "0", "7", "0", "8", "3", "8", "3", "6", "7",
       "6", "2", "7", "3", "8", "5", "4", "8", "4", "5", "8", "1", "7", "7", "1", "1",
       "5", "3", "1", "7", "6", "4", "4", "7", "5", "7", "3", "0", "2", "7", "0", "0",
       "6", "9", "8", "5", "5", "5", "7", "1", "3", "6", "6", "9", "5", "9", "6", "2",
       "2", "8", "4", "2", "9", "1", "4", "8", "1", "9", "8", "6", "0", "8", "3", "4",
       "9", "3", "6", "4", "7", "5", "2", "9", "2", "7", "1", "9", "0", "7", "4", "1",
       "6", "8", "4", "4", "4", "3", "6", "5", "5", "1", "0", "7", "0", "4", "3", "4",
       "2", "7", "1", "1", "5", "5", "9", "6", "9", "9", "5", "0", "8", "0", "9", "3",
       "0", "4", "2", "8", "8", "0", "1", "7", "7", "9", "0", "4", "1", "7", "4", "4",
       "9", "7", "7", "9", "2"
    >>

\* the integer written by the digits a (no leading zeros) is at least b's
DigitsAtLeast(a, b) ==
    IF Len(a) # Len(b) THEN Len(a) > Len(b)
    ELSE LET diff == { i \in 1..Len(a) : a[i] # b[i] } IN
         \/ diff = {}
         \/ LET first == CHOOSE i \in diff : \A j \in diff : i <= j
            IN  DigitValue[a[first]] > DigitValue[b[first]]

\* parseFloat: leading whitespace, a sign, then the longest prefix of the form
\* digits [. digits]; NaN when it has no digit; Infinity when the decimal
\* rounds beyond the double range. Exponents and the literal 'Infinity' need
\* characters the texts of this model do not contain.
parseFloat(text) ==
    LET t    == trimStart(text)
        neg  == t # <<>> /\ Head(t) = "-"
        u    == IF t # <<>> /\ Head(t) \in {"-", "+"} THEN Tail(t) ELSE t
        int  == digitPrefix(u)
        rest == SubSeq(u, Len(int) + 1, Len(u))
        frac == IF rest # <<>> /\ Head(rest) = "." THEN digitPrefix(Tail(rest)) ELSE <<>>
    IN  IF int = <<>> /\ frac = <<>> THEN NaNNumber
        ELSE IF DigitsAtLeast(dropLeadingZeros(int), DoubleOverflow)
             THEN InfinityNumber(neg)
        ELSE DecimalNumber(neg, int, frac)

\* x || 0 for a number: NaN, 0 and -0 are falsy
NumberOrZero(x) ==
    IF x.kind = "NaN" \/ (x.kind = "number" /\ x.int = <<>> /\ x.frac = <<>>)
    THEN ZeroNumber
    ELSE x

\* Number.prototype.toString of a decimal in the range written without exponent
toString(x) ==
    (IF x.negative THEN <<"-">> ELSE <<>>)
        \o (IF x.int = <<>> THEN <<"0">> ELSE x.int)
        \o (IF x.frac = <<>> THEN <<>> ELSE <<".">> \o x.frac)

\* the subscription prop is undefined
NoSubscription ==
    [name |-> <<>>, price |-> ZeroNumber, frequency |-> "none", renewalDate |-> NoDate,
     iconUrl |-> <<>>]
NoSubmit ==
    [name |-> <<>>, price |-> ZeroNumber, frequency |-> "none", renewalDate |-> NoDate,
     iconUrl |-> <<>>]

\* name and icon of the records the form is opened on
StoredName == <<"N", "n">>
StoredPrice == DecimalNumber(FALSE, <<"9">>, <<"9", "9">>)
IconUrl    == LogoUrl(<<"n", "n">>)

\* values of the clock at which the form is opened
ClockStarts == { Date(2024, 0, 30), Date(2024, 11, 30) }

\* renewal dates of the records the form is opened on
StoredRenewalDates == { Date(2024, 0, 31), Date(2024, 1, 29), Date(2024, 2, 15) }

StoredSubscriptions ==
    { [name |-> StoredName, price |-> StoredPrice, frequency |-> f, renewalDate |-> d,
       iconUrl |-> IconUrl] :
        f \in FREQUENCIES, d \in StoredRenewalDates }

\* days offered by the calendar, relative to the clock
PickOffsets == { -1, 0, 40 }

\* useEffect(..., [frequency, subscription]) body
FrequencyEffect(sub, freq, current, clock) ==
    IF sub # NoSubscription THEN calculateNextRenewalDate(freq, clock) ELSE current

\* first render of the component: useState initial values, then the effect.
\* The component state does not survive an unmount, so a behaviour follows
\* the form from one mount up to its submit.
Mount(sub, clock) ==
    /\ ~mounted
    /\ submitted = NoSubmit
    /\ mounted' = TRUE
    /\ now' = clock
    /\ openedAt' = clock
    /\ ticks' = 0
    /\ subscription' = sub
    /\ frequency' = IF sub # NoSubscription THEN sub.frequency ELSE "monthly"
    /\ renewalDate' =
          FrequencyEffect(sub, frequency',
                          IF sub # NoSubscription THEN sub.renewalDate ELSE clock,
                          clock)
    /\ pickedDate' = FALSE
    /\ selectedIcon' = <<>>
    /\ name' = sub.name
    /\ priceText' = IF sub # NoSubscription THEN toString(sub.price) ELSE <<>>
    /\ iconResults' = <<>>
    /\ searchTimeout' = NoTimer
    /\ isSearching' = FALSE
    /\ noIconFound' = FALSE
    /\ showDatePicker' = FALSE
    /\ currentMonth' = clock
    /\ pressedDate' = NoDate
    /\ lastEvent' = "mount"
    /\ submitted' = NoSubmit
    /\ UNCHANGED <<timers, timerCount, helperVars, totalsVars, indexVars>>

\* the frequency button whose onPress drops the "if (subscription)" test
PressFrequency_unguarded(freq) ==
    /\ mounted
    /\ ~showDatePicker
    /\ renewalDate.year <= MaxYear
    /\ frequency' = freq
    /\ LET afterPress == calculateNextRenewalFromCurrent(freq, renewalDate)
       IN  renewalDate' = IF freq # frequency
                          THEN FrequencyEffect(subscription, freq, afterPress, now)
                          ELSE afterPress
    /\ pressedDate' = NoDate
    /\ lastEvent' = IF freq # frequency THEN "frequencyChanged" ELSE "frequencySame"
    /\ UNCHANGED <<now, mounted, subscription, openedAt, ticks, pickedDate, submitted,
                   selectedIcon, helperVars, totalsVars, indexVars, searchVars, priceText,
                   showDatePicker, currentMonth>>

\* onPress of a frequency button, followed by the effect when frequency changed
PressFrequency(freq) ==
    /\ mounted
    /\ ~showDatePicker
    /\ renewalDate.year <= MaxYear
    /\ frequency' = freq
    /\ LET afterPress == IF subscription # NoSubscription
                         THEN calculateNextRenewalFromCurrent(freq, renewalDate)
                         ELSE renewalDate
       IN  renewalDate' = IF freq # frequency
                          THEN FrequencyEffect(subscription, freq, afterPress, now)
                          ELSE afterPress
    /\ pressedDate' = NoDate
    /\ lastEvent' = IF freq # frequency THEN "frequencyChanged" ELSE "frequencySame"
    /\ UNCHANGED <<now, mounted, subscription, openedAt, ticks, pickedDate, submitted,
                   selectedIcon, helperVars, totalsVars, indexVars, searchVars, priceText,
                   showDatePicker, currentMonth>>

\* isPastDate without today.setHours(0, 0, 0, 0): today's midnight is
\* earlier than the current time of day
isPastDate_noReset(date, clock) == ~DateLess(clock, date)

\* date < today, today being the start of the clock's day
isPastDate(date, clock) == DateLess(date, clock)

\* onPress of the renewal date button
openDatePicker ==
    /\ mounted
    /\ ~showDatePicker
    /\ showDatePicker' = TRUE
    /\ pressedDate' = NoDate
    /\ lastEvent' = "openDatePicker"
    /\ UNCHANGED <<now, mounted, subscription, frequency, renewalDate, openedAt, ticks,
                   pickedDate, submitted, selectedIcon, searchVars, priceText,
                   currentMonth, helperVars, totalsVars, indexVars>>

\* the close, Cancel and Confirm buttons of the calendar
closeDatePicker ==
    /\ mounted
    /\ showDatePicker
    /\ showDatePicker' = FALSE
    /\ pressedDate' = NoDate
    /\ lastEvent' = "closeDatePicker"
    /\ UNCHANGED <<now, mounted, subscription, frequency, renewalDate, openedAt, ticks,
                   pickedDate, submitted, selectedIcon, searchVars, priceText,
                   currentMonth, helperVars, totalsVars, indexVars>>

\* the month navigation buttons of the calendar
changeMonth(direction) ==
    /\ mounted
    /\ showDatePicker
    /\ MinYear <= currentMonth.year /\ currentMonth.year <= MaxYear
    /\ currentMonth' = IF direction = "prev"
                       THEN setMonth(currentMonth, currentMonth.month - 1)
                       ELSE setMonth(currentMonth, currentMonth.month + 1)
    /\ pressedDate' = NoDate
    /\ lastEvent' = direction
    /\ UNCHANGED <<now, mounted, subscription, frequency, renewalDate, openedAt, ticks,
                   pickedDate, submitted, selectedIcon, searchVars, priceText,
                   showDatePicker, helperVars, totalsVars, indexVars>>

\* a day of the mobile calendar is pressed
selectDate(date) ==
    /\ mounted
    /\ showDatePicker
    /\ IF ~isPastDate(date, now)
       THEN /\ renewalDate' = date
            /\ showDatePicker' = FALSE
            /\ pickedDate' = TRUE
       ELSE UNCHANGED <<renewalDate, showDatePicker, pickedDate>>
    /\ pressedDate' = date
    /\ lastEvent' = "selectDate"
    /\ UNCHANGED <<now, mounted, subscription, frequency, openedAt, ticks, submitted,
                   selectedIcon, searchVars, priceText, currentMonth,
                   helperVars, totalsVars, indexVars>>

\* cleaned.split('.'), then parts[0] + '.' + parts.slice(1).join('') when
\* there are more than two parts: the first point stays, the others go
keepFirstPoint(cleaned) ==
    LET points == { i \in 1..Len(cleaned) : cleaned[i] = "." } IN
    IF Cardinality(points) > 1
    THEN LET first == CHOOSE i \in points : \A j \in points : i <= j IN
         SubSeq(cleaned, 1, first)
             \o SelectSeq(SubSeq(cleaned, first + 1, Len(cleaned)), LAMBDA c : c # ".")
    ELSE cleaned

\* onChangeText of the price field
handlePriceChange(text) ==
    /\ mounted
    /\ ~showDatePicker
    /\ LET cleaned == SelectSeq(text, LAMBDA c : c \in DecimalDigits \cup {"."}) IN
         priceText' = keepFirstPoint(cleaned)
    /\ pressedDate' = NoDate
    /\ lastEvent' = "priceChanged"
    /\ UNCHANGED <<now, mounted, subscription, frequency, renewalDate, openedAt, ticks,
                   pickedDate, submitted, selectedIcon, searchVars, showDatePicker, currentMonth,
                   helperVars, totalsVars, indexVars>>

\* the iconOptions the timer callback builds from the text it was started with
IconOptions(text) ==
    LET searchTerm == trim(toLowerCase(text))
        cleanName  == removeWhitespace(searchTerm)
    IN  << [id |-> "logo-1", url |-> LogoUrl(cleanName), title |-> searchTerm] >>

\* a clearTimeout that does nothing
clearTimeout_noop(pending, id) == pending

\* clearTimeout(id): the timer with that id, if still pending, will not fire
clearTimeout(pending, id) == { t \in pending : t.id # id }

\* onChangeText of the name field
handleNameChange(text) ==
    /\ mounted
    /\ ~showDatePicker
    /\ name' = text
    /\ IF trim(text) = <<>>
       THEN /\ iconResults' = <<>>
            /\ isSearching' = FALSE
            /\ noIconFound' = FALSE
            /\ UNCHANGED <<searchTimeout, timers, timerCount>>
       ELSE /\ timerCount < MaxTimers
            /\ LET timeoutId == timerCount + 1 IN
                 /\ timers' = (IF searchTimeout # NoTimer
                               THEN clearTimeout(timers, searchTimeout)
                               ELSE timers) \cup { [id |-> timeoutId, text |-> text] }
                 /\ searchTimeout' = timeoutId
                 /\ timerCount' = timeoutId
            /\ isSearching' = TRUE
            /\ noIconFound' = FALSE
            /\ UNCHANGED iconResults
    /\ pressedDate' = NoDate
    /\ lastEvent' = "nameChanged"
    /\ UNCHANGED <<now, mounted, subscription, frequency, renewalDate, openedAt, ticks,
                   pickedDate, submitted, selectedIcon, priceText, showDatePicker, currentMonth,
                   helperVars, totalsVars, indexVars>>

\* the setTimeout callback: the pending timer started first fires (all have
\* the same delay of one second)
TimerFires ==
    /\ mounted
    /\ timers # {}
    /\ LET t == CHOOSE x \in timers : \A y \in timers : x.id <= y.id IN
         /\ iconResults' = IconOptions(t.text)
         /\ timers' = timers \ {t}
    /\ isSearching' = FALSE
    /\ pressedDate' = NoDate
    /\ lastEvent' = "timer"
    /\ UNCHANGED <<now, mounted, subscription, frequency, renewalDate, openedAt, ticks,
                   pickedDate, submitted, selectedIcon, name, searchTimeout, noIconFound,
                   timerCount, priceText, showDatePicker, currentMonth, helperVars, totalsVars, indexVars>>

\* onError of a listed icon image
handleIconError ==
    /\ mounted
    /\ trim(name) # <<>> /\ selectedIcon = <<>> /\ ~isSearching /\ ~noIconFound
    /\ iconResults # <<>>
    /\ noIconFound' = TRUE
    /\ pressedDate' = NoDate
    /\ lastEvent' = "iconError"
    /\ UNCHANGED <<now, mounted, subscription, frequency, renewalDate, openedAt, ticks,
                   pickedDate, submitted, selectedIcon, name, iconResults, searchTimeout,
                   isSearching, timers, timerCount, priceText, showDatePicker, currentMonth,
                   helperVars, totalsVars, indexVars>>

\* the Save / Add button; the parent hides the form from onSubmit
handleSubmit ==
    /\ mounted
    /\ ~showDatePicker
    /\ LET priceValue == NumberOrZero(parseFloat(priceText)) IN
         submitted' = [name |-> name, price |-> priceValue, frequency |-> frequency,
                       renewalDate |-> renewalDate, iconUrl |-> selectedIcon]
    /\ pressedDate' = NoDate
    /\ lastEvent' = "submit"
    /\ mounted' = FALSE
    /\ UNCHANGED <<now, subscription, frequency, renewalDate, openedAt, ticks,
                   pickedDate, selectedIcon, helperVars, totalsVars, indexVars, searchVars, priceText,
                   showDatePicker, currentMonth>>

\* the icons that can be pressed: the 'Change' button clears the selected
\* icon; the results are listed while none is selected
OfferedIcons ==
    IF trim(name) = <<>> THEN {}
    ELSE IF selectedIcon # <<>> THEN { <<>> }
    ELSE IF isSearching \/ noIconFound THEN {}
    ELSE { iconResults[i].url : i \in 1..Len(iconResults) }

\* onPress of an icon result (url) and of the 'Change' button ('')
setSelectedIcon(url) ==
    /\ mounted
    /\ ~showDatePicker
    /\ url \in OfferedIcons
    /\ selectedIcon' = url
    /\ pressedDate' = NoDate
    /\ lastEvent' = "selectedIcon"
    /\ UNCHANGED <<now, mounted, subscription, frequency, renewalDate, openedAt, ticks,
                   pickedDate, submitted, helperVars, totalsVars, indexVars, searchVars, priceText,
                   showDatePicker, currentMonth>>

\* the close button: the parent unmounts the form and its state is dropped
onCancel ==
    /\ mounted
    /\ ~showDatePicker
    /\ mounted' = FALSE
    /\ now' = NoDate
    /\ subscription' = NoSubscription
    /\ frequency' = "monthly"
    /\ renewalDate' = NoDate
    /\ openedAt' = NoDate
    /\ ticks' = 0
    /\ pickedDate' = FALSE
    /\ selectedIcon' = <<>>
    /\ name' = <<>>
    /\ iconResults' = <<>>
    /\ searchTimeout' = NoTimer
    /\ isSearching' = FALSE
    /\ noIconFound' = FALSE
    /\ timers' = {}
    /\ priceText' = <<>>
    /\ showDatePicker' = FALSE
    /\ currentMonth' = NoDate
    /\ pressedDate' = NoDate
    /\ lastEvent' = "cancel"
    /\ UNCHANGED <<submitted, timerCount, helperVars, totalsVars, indexVars>>

\* a day passes while the form is open
Tick ==
    /\ mounted
    /\ ticks < MaxTicks
    /\ ticks' = ticks + 1
    /\ now' = setDate(now, now.date + 1)
    /\ UNCHANGED <<mounted, subscription, frequency, renewalDate, openedAt,
                   pickedDate, lastEvent, submitted, selectedIcon, helperVars,
                   totalsVars, indexVars, fieldVars>>

-----------------------------------------------------------------------------
(* Numbers of the totals screen: exact rationals <<numerator, denominator>> *)

RECURSIVE GCD(_, _)
GCD(a, b) == IF b = 0 THEN a ELSE GCD(b, a % b)

\* the number NaN (also what undefined becomes in arithmetic)
NaN == <<0, 0>>

IsNaN(x) == x[2] = 0

Rat(n, d) == IF d = 0 THEN NaN ELSE LET g == GCD(n, d) IN <<n \div g, d \div g>>

Zero == <<0, 1>>

RatMul(a, b) ==
    IF IsNaN(a) \/ IsNaN(b) THEN NaN ELSE Rat(a[1] * b[1], a[2] * b[2])

RatAdd(a, b) ==
    IF IsNaN(a) \/ IsNaN(b) THEN NaN
    ELSE LET l == (a[2] \div GCD(a[2], b[2])) * b[2]
         IN  Rat(a[1] * (l \div a[2]) + b[1] * (l \div b[2]), l)

\* x || 0 on a number: 0 and NaN are falsy
OrZero(x) == IF x[1] = 0 THEN Zero ELSE x

\* 1/3, 1/6 and 1/12 are written as divisions in the source; 4.33 and 2.17
\* are written as decimal literals
FREQUENCY_MULTIPLIERS ==
    [ f \in FREQUENCIES |->
        CASE f = "weekly"      -> Rat(433, 100)
          [] f = "bi-weekly"   -> Rat(217, 100)
          [] f = "monthly"     -> Rat(1, 1)
          [] f = "quarterly"   -> Rat(1, 3)
          [] f = "semi-annual" -> Rat(1, 6)
          [] f = "yearly"      -> Rat(1, 12) ]

TAX_MULTIPLIER == Rat(113, 100)

\* a record without a frequency field (or with a falsy one)
MissingFrequency == ""

\* subscription.frequency || 'monthly'
FrequencyOrMonthly(freq) == IF freq = MissingFrequency THEN "monthly" ELSE freq

\* FREQUENCY_MULTIPLIERS[frequency] as a factor: a key that is not in the
\* table reads undefined, which multiplies to NaN
Multiplier(freq) ==
    IF freq \in DOMAIN FREQUENCY_MULTIPLIERS THEN FREQUENCY_MULTIPLIERS[freq] ELSE NaN

\* obj[key] || 0 on a MonthlyTotals object
Bucket(obj, key) == IF key \in DOMAIN obj THEN OrZero(obj[key]) ELSE Zero

\* the object replaced by a new one holding only the key written
SetBucket_replaceObject(obj, key, value) == [ k \in {key} |-> value ]

\* obj[key] = value
SetBucket(obj, key, value) ==
    [ k \in DOMAIN obj \cup {key} |-> IF k = key THEN value ELSE obj[k] ]

EmptyTotals ==
    [ total |-> <<>>, active |-> <<>>, cancelled |-> <<>>,
      freeTrials |-> 0, totalSubscriptions |-> 0 ]

\* the tax applied on the price and again on the monthly amount
MonthlyPrice_taxTwice(sub) ==
    LET price        == IF sub.includeTax
                        THEN RatMul(OrZero(sub.price), TAX_MULTIPLIER)
                        ELSE OrZero(sub.price)
        frequency_   == FrequencyOrMonthly(sub.frequency)
        monthlyPrice == RatMul(price, Multiplier(frequency_))
    IN  IF sub.includeTax THEN RatMul(monthlyPrice, TAX_MULTIPLIER) ELSE monthlyPrice

\* the monthly amount of one record (body of the forEach callback, lines 94-104)
MonthlyPrice(sub) ==
    LET price        == OrZero(sub.price)
        frequency_   == FrequencyOrMonthly(sub.frequency)
        monthlyPrice == RatMul(price, Multiplier(frequency_))
    IN  IF sub.includeTax THEN RatMul(monthlyPrice, TAX_MULTIPLIER) ELSE monthlyPrice

\* the "add to total" statement moved into the else branch of isCancelled
Accumulate_totalInElse(newTotals, sub) ==
    LET currency     == sub.currency
        monthlyPrice == MonthlyPrice(sub)
    IN  [ total |->
            IF sub.isCancelled THEN newTotals.total
            ELSE SetBucket(newTotals.total, currency,
                           RatAdd(Bucket(newTotals.total, currency), monthlyPrice)),
          active |->
            IF sub.isCancelled THEN newTotals.active
            ELSE SetBucket(newTotals.active, currency,
                           RatAdd(Bucket(newTotals.active, currency), monthlyPrice)),
          cancelled |->
            IF sub.isCancelled
            THEN SetBucket(newTotals.cancelled, currency,
                           RatAdd(Bucket(newTotals.cancelled, currency), monthlyPrice))
            ELSE newTotals.cancelled,
          freeTrials |->
            IF sub.isFreeTrial THEN newTotals.freeTrials + 1 ELSE newTotals.freeTrials,
          totalSubscriptions |-> newTotals.totalSubscriptions ]

\* total assigned ("=") where it is accumulated ("+")
Accumulate_assignTotal(newTotals, sub) ==
    LET currency     == sub.currency
        monthlyPrice == MonthlyPrice(sub)
    IN  [ total |-> SetBucket(newTotals.total, currency, monthlyPrice),
          active |->
            IF sub.isCancelled THEN newTotals.active
            ELSE SetBucket(newTotals.active, currency,
                           RatAdd(Bucket(newTotals.active, currency), monthlyPrice)),
          cancelled |->
            IF sub.isCancelled
            THEN SetBucket(newTotals.cancelled, currency,
                           RatAdd(Bucket(newTotals.cancelled, currency), monthlyPrice))
            ELSE newTotals.cancelled,
          freeTrials |->
            IF sub.isFreeTrial THEN newTotals.freeTrials + 1 ELSE newTotals.freeTrials,
          totalSubscriptions |-> newTotals.totalSubscriptions ]

\* the free-trial count moved into the else branch of isCancelled
Accumulate_trialsOnlyActive(newTotals, sub) ==
    LET currency     == sub.currency
        monthlyPrice == MonthlyPrice(sub)
    IN  [ total |->
            SetBucket(newTotals.total, currency,
                      RatAdd(Bucket(newTotals.total, currency), monthlyPrice)),
          active |->
            IF sub.isCancelled THEN newTotals.active
            ELSE SetBucket(newTotals.active, currency,
                           RatAdd(Bucket(newTotals.active, currency), monthlyPrice)),
          cancelled |->
            IF sub.isCancelled
            THEN SetBucket(newTotals.cancelled, currency,
                           RatAdd(Bucket(newTotals.cancelled, currency), monthlyPrice))
            ELSE newTotals.cancelled,
          freeTrials |->
            IF sub.isFreeTrial /\ ~sub.isCancelled
            THEN newTotals.freeTrials + 1 ELSE newTotals.freeTrials,
          totalSubscriptions |-> newTotals.totalSubscriptions ]

\* one iteration of subscriptions.forEach
Accumulate(newTotals, sub) ==
    LET currency     == sub.currency
        monthlyPrice == MonthlyPrice(sub)
    IN  [ total |->
            SetBucket(newTotals.total, currency,
                      RatAdd(Bucket(newTotals.total, currency), monthlyPrice)),
          active |->
            IF sub.isCancelled THEN newTotals.active
            ELSE SetBucket(newTotals.active, currency,
                           RatAdd(Bucket(newTotals.active, currency), monthlyPrice)),
          cancelled |->
            IF sub.isCancelled
            THEN SetBucket(newTotals.cancelled, currency,
                           RatAdd(Bucket(newTotals.cancelled, currency), monthlyPrice))
            ELSE newTotals.cancelled,
          freeTrials |->
            IF sub.isFreeTrial THEN newTotals.freeTrials + 1 ELSE newTotals.freeTrials,
          totalSubscriptions |-> newTotals.totalSubscriptions ]

RECURSIVE ForEach(_, _, _)
ForEach(newTotals, subs, i) ==
    IF i > Len(subs) THEN newTotals
    ELSE ForEach(Accumulate(newTotals, subs[i]), subs, i + 1)

\* totalSubscriptions counting the records that are not cancelled
calculateTotals_countActive(subs) ==
    ForEach([EmptyTotals EXCEPT !.totalSubscriptions =
                Cardinality({ i \in 1..Len(subs) : ~subs[i].isCancelled })], subs, 1)

\* newTotals.total starting with a zero entry for the default currency
calculateTotals_seededTotal(subs) ==
    ForEach([EmptyTotals EXCEPT !.total = [ k \in {"CAD"} |-> Zero ],
                                !.totalSubscriptions = Len(subs)], subs, 1)

calculateTotals(subs) ==
    ForEach([EmptyTotals EXCEPT !.totalSubscriptions = Len(subs)], subs, 1)

-----------------------------------------------------------------------------
(* Totals screen: the stored list is loaded, then the totals effect runs *)

Price(n) == Rat(n, 1)

\* well-formed records (section 3 of the specification)
Records ==
    { [ price |-> Price(p), currency |-> c, frequency |-> f,
        includeTax |-> t, isCancelled |-> x, isFreeTrial |-> r ] :
        p \in {0, 10, 100}, c \in {"CAD", "USD"}, f \in FREQUENCIES,
        t \in BOOLEAN, x \in BOOLEAN, r \in BOOLEAN }

\* the records that lists of two or more are made of
MixRecords ==
    { r \in Records : r.frequency \in {"monthly", "yearly"} /\ r.price # Zero }

SubscriptionLists ==
    { <<>> } \cup { <<r>> : r \in Records }
             \cup UNION { [1..n -> MixRecords] : n \in 2..MaxSubs }

\* the record the forEach callback was given, after the callback: the
\* callback assigns to newTotals only, no field of subscription is written
SubscriptionAfter(sub) == sub

\* loadSubscriptions, then the effect on [subscriptions]
loadSubscriptions ==
    /\ totals' = calculateTotals(stored)
    /\ subscriptions' = [ i \in 1..Len(stored) |-> SubscriptionAfter(stored[i]) ]
    /\ loaded' = TRUE
    /\ UNCHANGED <<stored, helperVars, formVars, indexVars, fieldVars>>

-----------------------------------------------------------------------------
(* Index screen: the list, the form modal, and AsyncStorage *)

\* a Date object and a string, as JSON tells them apart
DateValue(iso)   == [type |-> "Date", iso |-> iso]
StringValue(iso) == [type |-> "string", iso |-> iso]

\* Date.prototype.toJSON; a string is serialised as itself
toJSON(value) == IF value.type = "Date" THEN StringValue(value.iso) ELSE value

\* useState<Subscription | undefined>(): undefined
NoId      == <<"none", 0>>
NoEditing == [id |-> NoId, name |-> "", renewalDate |-> StringValue("")]
NoData    == [name |-> "", renewalDate |-> StringValue("")]

\* AsyncStorage.getItem gives null while nothing was stored under the key
NoItem == [present |-> FALSE, value |-> <<>>]

\* JSON.stringify of the list: each record field by field, the Date as a string
JSONstringify(subs) ==
    [present |-> TRUE,
     value   |-> [ i \in 1..Len(subs) |->
                     [subs[i] EXCEPT !.renewalDate = toJSON(@)] ]]

\* JSON.parse of a stored item: renewalDate stays the string it was stored as
JSONparse(item) == item.value

\* Date.now().toString(36) + Math.random().toString(36).substring(2): an id
\* different from every earlier one; n stands for the moment of the call
generateId(n) == <<"generated", n>>

\* { ...data, id }
WithId(data, id) == [id |-> id, name |-> data.name, renewalDate |-> data.renewalDate]

\* what the form may submit
FormDatas == [name : {"Netflix", "Spotify"}, renewalDate : {DateValue("2024-03-01")}]

\* what an earlier run may have left in storage
StoredItems ==
    LET s1 == WithId([name |-> "Netflix", renewalDate |-> DateValue("2024-01-31")],
                     <<"stored", 1>>)
        s2 == WithId([name |-> "Gym", renewalDate |-> DateValue("2024-02-15")],
                     <<"stored", 2>>)
    IN  { NoItem, JSONstringify(<<>>), JSONstringify(<<s1>>), JSONstringify(<<s1, s2>>) }

Elements(seq) == { seq[i] : i \in 1..Len(seq) }

\* the list the form replaces the state with, prepending the new record
newSubscriptions_prepend(subs, editing, data, id) ==
    IF editing # NoEditing
    THEN [ i \in 1..Len(subs) |->
             IF subs[i].id = editing.id THEN WithId(data, subs[i].id) ELSE subs[i] ]
    ELSE <<WithId(data, id)>> \o subs

\* newSubscriptions of handleAddSubscription
newSubscriptions(subs, editing, data, id) ==
    IF editing # NoEditing
    THEN [ i \in 1..Len(subs) |->
             IF subs[i].id = editing.id THEN WithId(data, subs[i].id) ELSE subs[i] ]
    ELSE Append(subs, WithId(data, id))

\* the filter keeping the record to delete instead of the others
withoutId_keepOnly(subs, id) == SelectSeq(subs, LAMBDA sub : sub.id = id)

\* subscriptions.filter(sub => sub.id !== id)
withoutId(subs, id) == SelectSeq(subs, LAMBDA sub : sub.id # id)

\* the promise of the getItem issued at mount resolves: AsyncStorage performs
\* the calls in the order they were issued, so it carries the item of that moment
loadSubscriptionsResolves ==
    /\ pendingLoad.pending
    /\ pendingLoad' = [pending |-> FALSE, item |-> NoItem]
    /\ indexSubscriptions' = IF pendingLoad.item.present
                             THEN JSONparse(pendingLoad.item)
                             ELSE indexSubscriptions
    /\ lastOp' = [op |-> "load", id |-> NoId, data |-> NoData, editing |-> NoEditing,
                  before |-> indexSubscriptions]
    /\ UNCHANGED <<isFormVisible, editingSubscription, storageItem, pendingWrites,
                   saves, helperVars, formVars, totalsVars, fieldVars>>

\* the oldest setItem issued by saveSubscriptions is performed
saveSubscriptionsResolves ==
    /\ pendingWrites # <<>>
    /\ storageItem' = Head(pendingWrites)
    /\ pendingWrites' = Tail(pendingWrites)
    /\ UNCHANGED <<indexSubscriptions, isFormVisible, editingSubscription, pendingLoad,
                   saves, lastOp, helperVars, formVars, totalsVars, fieldVars>>

\* '+ Add' onPress; the modal covers the header while the form is visible
PressAdd ==
    /\ ~isFormVisible
    /\ isFormVisible' = TRUE
    /\ lastOp' = [op |-> "add", id |-> NoId, data |-> NoData, editing |-> editingSubscription,
                  before |-> indexSubscriptions]
    /\ UNCHANGED <<indexSubscriptions, editingSubscription, storageItem, pendingLoad,
                   pendingWrites, saves, helperVars, formVars, totalsVars, fieldVars>>

\* a row of the list is pressed
handleEditSubscription(sub) ==
    /\ ~isFormVisible
    /\ sub \in Elements(indexSubscriptions)
    /\ editingSubscription' = sub
    /\ isFormVisible' = TRUE
    /\ lastOp' = [op |-> "edit", id |-> NoId, data |-> NoData, editing |-> editingSubscription,
                  before |-> indexSubscriptions]
    /\ UNCHANGED <<indexSubscriptions, storageItem, pendingLoad, pendingWrites,
                   saves, helperVars, formVars, totalsVars, fieldVars>>

\* onSubmit of the form
handleAddSubscription(data) ==
    /\ isFormVisible
    /\ saves < MaxSaves
    /\ LET new == newSubscriptions(indexSubscriptions, editingSubscription, data,
                                   generateId(saves))
       IN  /\ indexSubscriptions' = new
           /\ pendingWrites' = Append(pendingWrites, JSONstringify(new))
    /\ saves' = saves + 1
    /\ isFormVisible' = FALSE
    /\ editingSubscription' = NoEditing
    /\ lastOp' = [op |-> "submit", id |-> NoId, data |-> data, editing |-> editingSubscription,
                  before |-> indexSubscriptions]
    /\ UNCHANGED <<storageItem, pendingLoad, helperVars, formVars, totalsVars, fieldVars>>

\* the delete control of a row
handleDeleteSubscription(id) ==
    /\ ~isFormVisible
    /\ saves < MaxSaves
    /\ id \in { sub.id : sub \in Elements(indexSubscriptions) }
    /\ LET new == withoutId(indexSubscriptions, id)
       IN  /\ indexSubscriptions' = new
           /\ pendingWrites' = Append(pendingWrites, JSONstringify(new))
    /\ saves' = saves + 1
    /\ lastOp' = [op |-> "delete", id |-> id, data |-> NoData, editing |-> NoEditing,
                  before |-> indexSubscriptions]
    /\ UNCHANGED <<isFormVisible, editingSubscription, storageItem, pendingLoad,
                   helperVars, formVars, totalsVars, fieldVars>>

\* handleCancel without setEditingSubscription(undefined)
handleCancel_keepEditing ==
    /\ isFormVisible
    /\ isFormVisible' = FALSE
    /\ lastOp' = [op |-> "cancel", id |-> NoId, data |-> NoData, editing |-> editingSubscription,
                  before |-> indexSubscriptions]
    /\ UNCHANGED <<indexSubscriptions, editingSubscription, storageItem, pendingLoad,
                   pendingWrites, saves, helperVars, formVars, totalsVars, fieldVars>>

\* onCancel of the form, onRequestClose of the modal
handleCancel ==
    /\ isFormVisible
    /\ isFormVisible' = FALSE
    /\ editingSubscription' = NoEditing
    /\ lastOp' = [op |-> "cancel", id |-> NoId, data |-> NoData, editing |-> editingSubscription,
                  before |-> indexSubscriptions]
    /\ UNCHANGED <<indexSubscriptions, storageItem, pendingLoad, pendingWrites,
                   saves, helperVars, formVars, totalsVars, fieldVars>>

-----------------------------------------------------------------------------
(* Specifications *)

IdleHelpers ==
    /\ freqArg = "monthly"
    /\ fromDate = NoDate
    /\ nextDate = NoDate
    /\ nextFromCurrent = NoDate

IdleForm ==
    /\ now = NoDate
    /\ mounted = FALSE
    /\ subscription = NoSubscription
    /\ frequency = "monthly"
    /\ renewalDate = NoDate
    /\ openedAt = NoDate
    /\ ticks = 0
    /\ pickedDate = FALSE
    /\ lastEvent = "none"
    /\ submitted = NoSubmit
    /\ selectedIcon = <<>>

IdleTotals ==
    /\ stored = <<>>
    /\ loaded = FALSE
    /\ subscriptions = <<>>
    /\ totals = EmptyTotals

\* the renewal helpers on every frequency value and anchor date
IdleFields ==
    /\ name = <<>>
    /\ iconResults = <<>>
    /\ searchTimeout = NoTimer
    /\ isSearching = FALSE
    /\ noIconFound = FALSE
    /\ timers = {}
    /\ timerCount = 0
    /\ priceText = <<>>
    /\ showDatePicker = FALSE
    /\ currentMonth = NoDate
    /\ pressedDate = NoDate

IdleIndex ==
    /\ IdleFields
    /\ indexSubscriptions = <<>>
    /\ isFormVisible = FALSE
    /\ editingSubscription = NoEditing
    /\ storageItem = NoItem
    /\ pendingLoad = [pending |-> FALSE, item |-> NoItem]
    /\ pendingWrites = <<>>
    /\ saves = 0
    /\ lastOp = [op |-> "none", id |-> NoId, data |-> NoData, editing |-> NoEditing, before |-> <<>>]

InitHelpers ==
    /\ IdleIndex
    /\ freqArg \in FrequencyValues
    /\ fromDate \in AnchorDates
    /\ nextDate = NoDate
    /\ nextFromCurrent = NoDate
    /\ IdleForm
    /\ IdleTotals

NextHelpers ==
    \/ ApplyNextRenewalDate
    \/ ApplyNextRenewalFromCurrent

SpecHelpers == InitHelpers /\ [][NextHelpers]_vars

\* the form, opened on an existing record or empty
InitForm ==
    /\ IdleIndex
    /\ IdleHelpers
    /\ IdleForm
    /\ IdleTotals

NextForm ==
    \/ \E sub \in StoredSubscriptions \cup {NoSubscription}, clock \in ClockStarts :
          Mount(sub, clock)
    \/ \E freq \in FREQUENCIES : PressFrequency(freq)
    \/ openDatePicker
    \/ closeDatePicker
    \/ \E off \in PickOffsets :
          LET date == setDate(now, now.date + off) IN
          ~isPastDate(date, openedAt) /\ selectDate(date)
    \/ handleSubmit
    \/ onCancel
    \/ Tick

SpecForm == InitForm /\ [][NextForm]_vars

\* the name field of the form: typing, the search timer, the icons
NameChars == { "n", "N", " " }

\* what one edit of the name field can make of the text
NameEdits(text) ==
    { text \o <<c>> : c \in IF Len(text) < MaxName THEN NameChars ELSE {} }
        \cup (IF text # <<>> THEN { SubSeq(text, 1, Len(text) - 1), <<>> } ELSE {})

InitIconSearch == InitForm

NextIconSearch ==
    \/ \E sub \in { NoSubscription,
                     [name |-> StoredName, price |-> StoredPrice,
                      frequency |-> "monthly", renewalDate |-> Date(2024, 2, 15),
                      iconUrl |-> IconUrl] } :
          Mount(sub, Date(2024, 0, 30))
    \/ \E text \in NameEdits(name) : handleNameChange(text)
    \/ TimerFires
    \/ handleIconError
    \/ \E url \in OfferedIcons : setSelectedIcon(url)
    \/ handleSubmit
    \/ onCancel

SpecIconSearch == InitIconSearch /\ [][NextIconSearch]_vars

\* the price field of the form: typing and pasting, then submit
PriceChars == { "0", "1", ".", "-", "x" }

\* a run of digits as long as a pasted text can be
LongDigits == [ i \in 1..Len(DoubleOverflow) |-> "9" ]

\* what one edit of the price field can make of the text: a character typed
\* at the end, the last character deleted, a run of digits pasted at the end
PriceEdits(text) ==
    { text \o <<c>> : c \in IF Len(text) < MaxPrice THEN PriceChars ELSE {} }
        \cup (IF text # <<>> THEN { SubSeq(text, 1, Len(text) - 1) } ELSE {})
        \cup (IF Len(text) <= MaxPrice THEN { text \o LongDigits } ELSE {})

InitPrice == InitForm

NextPrice ==
    \/ \E sub \in { NoSubscription,
                     [name |-> StoredName, price |-> StoredPrice,
                      frequency |-> "monthly", renewalDate |-> Date(2024, 2, 15),
                      iconUrl |-> IconUrl] } :
          Mount(sub, Date(2024, 0, 30))
    \/ \E text \in PriceEdits(priceText) : handlePriceChange(text)
    \/ handleSubmit
    \/ onCancel

SpecPrice == InitPrice /\ [][NextPrice]_vars

\* the mobile calendar: the form opened on any day of these months, then
\* the picker opened and the months navigated
CalendarClocks ==
    { dt \in { Date(2024, m, d) : m \in {0, 1, 2, 11}, d \in 1..31 } :
        dt.date <= DaysInMonth(dt.year, dt.month) }

InitCalendar == InitForm

NextCalendar ==
    \/ \E clock \in CalendarClocks : Mount(NoSubscription, clock)
    \/ openDatePicker
    \/ closeDatePicker
    \/ \E direction \in {"prev", "next"} : changeMonth(direction)

SpecCalendar == InitCalendar /\ [][NextCalendar]_vars

\* the totals screen on every stored list
InitTotals ==
    /\ IdleIndex
    /\ IdleHelpers
    /\ IdleForm
    /\ stored \in SubscriptionLists
    /\ loaded = FALSE
    /\ subscriptions = <<>>
    /\ totals = EmptyTotals

NextTotals == loadSubscriptions

SpecTotals == InitTotals /\ [][NextTotals]_vars

\* Index after its first render: the mount effect has issued the getItem
InitIndex ==
    /\ IdleFields
    /\ IdleHelpers
    /\ IdleForm
    /\ IdleTotals
    /\ indexSubscriptions = <<>>
    /\ isFormVisible = FALSE
    /\ editingSubscription = NoEditing
    /\ storageItem \in StoredItems
    /\ pendingLoad = [pending |-> TRUE, item |-> storageItem]
    /\ pendingWrites = <<>>
    /\ saves = 0
    /\ lastOp = [op |-> "none", id |-> NoId, data |-> NoData, editing |-> NoEditing, before |-> <<>>]

NextIndex ==
    \/ loadSubscriptionsResolves
    \/ saveSubscriptionsResolves
    \/ PressAdd
    \/ \E sub \in Elements(indexSubscriptions) : handleEditSubscription(sub)
    \/ \E data \in FormDatas : handleAddSubscription(data)
    \/ \E sub \in Elements(indexSubscriptions) : handleDeleteSubscription(sub.id)
    \/ handleCancel

SpecIndex == InitIndex /\ [][NextIndex]_vars

-----------------------------------------------------------------------------
(* Calendar arithmetic the properties are stated with *)

CumulativeDays == <<0, 31, 59, 90, 120, 151, 181, 212, 243, 273, 304, 334>>

RECURSIVE DaysBeforeYear(_)
DaysBeforeYear(y) ==
    IF y <= MinYear THEN 0
    ELSE DaysBeforeYear(y - 1) + (IF IsLeapYear(y - 1) THEN 366 ELSE 365)

\* days from 1 January MinYear to dt
DayNumber(dt) ==
    DaysBeforeYear(dt.year) + CumulativeDays[dt.month + 1]
        + (IF dt.month > 1 /\ IsLeapYear(dt.year) THEN 1 ELSE 0) + dt.date - 1

Min(a, b) == IF a <= b THEN a ELSE b

\* n months after dt, the day clamped to the last day of the target month
ClampedAddMonths(dt, n) ==
    LET y == dt.year + ((dt.month + n) \div 12)
        m == (dt.month + n) % 12
    IN  Date(y, m, Min(dt.date, DaysInMonth(y, m)))

MonthsOf(freq) ==
    CASE freq = "monthly" -> 1 [] freq = "quarterly" -> 3 [] freq = "semi-annual" -> 6

-----------------------------------------------------------------------------
(* Properties *)

\* C1: after the frequency of an existing subscription was changed in the
\* form (press handler and effect both run), the renewal date held by the form
\* is the helper applied to the record's stored renewal date, not to the clock.
C1_RenewalFromStoredDate ==
    (mounted /\ lastEvent = "frequencyChanged" /\ subscription # NoSubscription)
        => renewalDate = calculateNextRenewalFromCurrent(frequency, subscription.renewalDate)

\* C2: for monthly, quarterly and semi-annual the result lies 1, 3 or 6
\* calendar months after the anchor's month, on day min(anchor day, last day
\* of that month); it never rolls into the following month.
C2_MonthClamp ==
    freqArg \in {"monthly", "quarterly", "semi-annual"} =>
        /\ nextDate # NoDate =>
              nextDate = ClampedAddMonths(fromDate, MonthsOf(freqArg))
        /\ nextFromCurrent # NoDate =>
              nextFromCurrent = ClampedAddMonths(fromDate, MonthsOf(freqArg))

\* C3: yearly gives the same month and day one year later, and 29 February
\* becomes 28 February when the following year is not a leap year.
C3_YearlyClamp ==
    freqArg = "yearly" =>
        /\ nextDate # NoDate => nextDate = ClampedAddMonths(fromDate, 12)
        /\ nextFromCurrent # NoDate => nextFromCurrent = ClampedAddMonths(fromDate, 12)

\* C4: for each of the six frequencies the result is strictly later than the
\* anchor date.
C4_StrictlyLater ==
    freqArg \in FREQUENCIES =>
        /\ nextDate # NoDate => DateLess(fromDate, nextDate)
        /\ nextFromCurrent # NoDate => DateLess(fromDate, nextFromCurrent)

C4_Witness ==
    /\ freqArg = "monthly"
    /\ fromDate = Date(2024, 0, 31)
    /\ nextDate # NoDate
    /\ nextFromCurrent # NoDate

\* C5: weekly is exactly the anchor plus 7 calendar days and bi-weekly exactly
\* the anchor plus 14, across month ends, leap days and year ends.
C5_ExactDayOffsets ==
    /\ (freqArg = "weekly" /\ nextDate # NoDate)
          => DayNumber(nextDate) = DayNumber(fromDate) + 7
    /\ (freqArg = "bi-weekly" /\ nextDate # NoDate)
          => DayNumber(nextDate) = DayNumber(fromDate) + 14

C5_Witness ==
    /\ freqArg = "bi-weekly"
    /\ fromDate = Date(2024, 1, 20)
    /\ nextDate = Date(2024, 2, 5)

\* C6: a frequency value outside the six enumerated ones gives the monthly
\* result, in both helpers.
C6_UnknownIsMonthly ==
    freqArg \in UnknownFrequencies =>
        /\ nextDate # NoDate => nextDate = calculateNextRenewalDate("monthly", fromDate)
        /\ nextFromCurrent # NoDate =>
              nextFromCurrent = calculateNextRenewalFromCurrent("monthly", fromDate)

C6_Witness ==
    /\ freqArg = "unknown-frequency"
    /\ fromDate = Date(2024, 4, 15)
    /\ nextDate = Date(2024, 5, 15)
    /\ nextFromCurrent = Date(2024, 5, 15)

\* a new record (no subscription prop) was submitted without a manual date pick
NewRecordSubmitted ==
    lastEvent = "submit" /\ subscription = NoSubscription /\ ~pickedDate

\* C7 (as stated): the renewal date submitted for a new record is the helper
\* applied to the frequency selected at submit and today.
C7_NewRecordAdvancedFromToday ==
    NewRecordSubmitted =>
        submitted.renewalDate \in
            { calculateNextRenewalDate(submitted.frequency, openedAt),
              calculateNextRenewalDate(submitted.frequency, now) }

\* C7 (amended): the renewal date submitted for a new record is the date on
\* which the form was opened, whatever frequencies were selected.
C7_NewRecordKeepsOpeningDate ==
    NewRecordSubmitted => submitted.renewalDate = openedAt

C7_Witness ==
    /\ NewRecordSubmitted
    /\ submitted.frequency = "yearly"
    /\ ticks > 0

\* the currencies of the Currency type
CURRENCIES == {"CAD", "USD", "EUR", "GBP"}

ExactMultiplier(freq) ==
    CASE freq = "weekly"      -> Rat(52, 12)
      [] freq = "bi-weekly"   -> Rat(26, 12)
      [] freq = "monthly"     -> Rat(1, 1)
      [] freq = "quarterly"   -> Rat(1, 3)
      [] freq = "semi-annual" -> Rat(1, 6)
      [] freq = "yearly"      -> Rat(1, 12)

\* C9: the monthly equivalent of a record is its price times the exact
\* rational multiplier of its frequency (52/12, 26/12, 1, 1/3, 1/6, 1/12).
C9_ExactMultipliers ==
    (Len(subscriptions) = 1 /\ ~subscriptions[1].includeTax) =>
        Bucket(totals.total, subscriptions[1].currency)
          = RatMul(subscriptions[1].price, ExactMultiplier(subscriptions[1].frequency))

TaxedCancelledMonthly100CAD ==
    [ price |-> Price(100), currency |-> "CAD", frequency |-> "monthly",
      includeTax |-> TRUE, isCancelled |-> TRUE, isFreeTrial |-> FALSE ]

\* the amount a record is expected to add: 1.13 times its monthly equivalent
\* when taxed, the monthly equivalent otherwise
ExpectedAmount(sub) ==
    LET monthlyEquivalent == RatMul(sub.price, FREQUENCY_MULTIPLIERS[sub.frequency])
    IN  IF sub.includeTax THEN RatMul(Rat(113, 100), monthlyEquivalent)
        ELSE monthlyEquivalent

RECURSIVE ExpectedSum(_, _, _)
ExpectedSum(subs, c, i) ==
    IF i > Len(subs) THEN Zero
    ELSE RatAdd(IF subs[i].currency = c THEN ExpectedAmount(subs[i]) ELSE Zero,
                ExpectedSum(subs, c, i + 1))

Permuted(subs, p) == [ i \in 1..Len(subs) |-> subs[p[i]] ]

C12_CurrencyFrame ==
    (loaded /\ Len(subscriptions) >= 1) =>
        LET n      == Len(subscriptions)
            r      == subscriptions[n]
            before == calculateTotals(SubSeq(subscriptions, 1, n - 1))
        IN  \A c \in CURRENCIES \ {r.currency} :
              \A b \in {"total", "active", "cancelled"} :
                /\ (c \in DOMAIN totals[b]) <=> (c \in DOMAIN before[b])
                /\ (c \in DOMAIN totals[b]) => totals[b][c] = before[b][c]

C12_Witness ==
    /\ loaded
    /\ Len(subscriptions) = 2
    /\ subscriptions[1].currency = "CAD"
    /\ subscriptions[2].currency = "USD"
    /\ DOMAIN totals.total = {"CAD", "USD"}

\* C15: the free-trial count is the number of records whose isFreeTrial is
\* true, whatever their other fields.
C15_FreeTrialCount ==
    loaded =>
        totals.freeTrials
          = Cardinality({ i \in 1..Len(subscriptions) : subscriptions[i].isFreeTrial })

C15_Witness ==
    /\ loaded
    /\ Len(subscriptions) = 2
    /\ subscriptions[1].isFreeTrial /\ subscriptions[1].isCancelled
    /\ ~subscriptions[2].isFreeTrial
    /\ totals.freeTrials = 1

RECURSIVE AllRecordsSum(_, _, _)
AllRecordsSum(subs, c, i) ==
    IF i > Len(subs) THEN Zero
    ELSE RatAdd(IF subs[i].currency = c THEN MonthlyPrice(subs[i]) ELSE Zero,
                AllRecordsSum(subs, c, i + 1))

\* C16: the record count is the length of the list, and every record, also a
\* cancelled, free-trial or zero-priced one, has its currency in total and its
\* amount in the sum.
C16_NoRecordExcluded ==
    loaded =>
        /\ totals.totalSubscriptions = Len(subscriptions)
        /\ \A i \in 1..Len(subscriptions) :
              subscriptions[i].currency \in DOMAIN totals.total
        /\ \A c \in CURRENCIES :
              Bucket(totals.total, c) = AllRecordsSum(subscriptions, c, 1)

C16_Witness ==
    /\ loaded
    /\ Len(subscriptions) = 1
    /\ subscriptions[1].price = Zero
    /\ subscriptions[1].isCancelled
    /\ subscriptions[1].isFreeTrial
    /\ totals.totalSubscriptions = 1
    /\ subscriptions[1].currency \in DOMAIN totals.total

\* C17: the totals of the empty list are three empty mappings, no free trial
\* and no record.
C17_EmptyList ==
    (loaded /\ subscriptions = <<>>) =>
        /\ DOMAIN totals.total = {}
        /\ DOMAIN totals.active = {}
        /\ DOMAIN totals.cancelled = {}
        /\ totals.freeTrials = 0
        /\ totals.totalSubscriptions = 0

C17_Witness ==
    /\ loaded
    /\ stored = <<>>
    /\ subscriptions = <<>>

-----------------------------------------------------------------------------
(* Totals screen on records that break the data model of section 3 *)

\* records with a NaN or negative price, a missing or unknown frequency
MalformedRecords ==
    { [ price |-> p, currency |-> c, frequency |-> f,
        includeTax |-> FALSE, isCancelled |-> x, isFreeTrial |-> FALSE ] :
        p \in {NaN, Rat(-10, 1), Price(10)}, c \in {"CAD", "USD"},
        f \in {MissingFrequency, "daily", "monthly", "yearly"}, x \in BOOLEAN }

MalformedLists ==
    { <<>> } \cup UNION { [1..n -> MalformedRecords] : n \in 1..MaxSubs }

InitTotalsMalformed ==
    /\ IdleIndex
    /\ IdleHelpers
    /\ IdleForm
    /\ stored \in MalformedLists
    /\ loaded = FALSE
    /\ subscriptions = <<>>
    /\ totals = EmptyTotals

SpecTotalsMalformed == InitTotalsMalformed /\ [][NextTotals]_vars

BadPrice(x) == IsNaN(x) \/ x[1] < 0

\* C13: as soon as a record has a negative or NaN price the aggregation fails
\* and produces no totals: the price is neither coerced to zero nor added to a
\* bucket, and no partial result is produced.
C13_FailsOnBadPrice ==
    (loaded /\ \E i \in 1..Len(subscriptions) : BadPrice(subscriptions[i].price))
        => totals = EmptyTotals

\* the amount of a record whose missing or unknown frequency counts as monthly
AmountWithMonthlyFallback(sub) ==
    LET f == IF sub.frequency \in FREQUENCIES THEN sub.frequency ELSE "monthly"
        m == RatMul(OrZero(sub.price), FREQUENCY_MULTIPLIERS[f])
    IN  IF sub.includeTax THEN RatMul(m, TAX_MULTIPLIER) ELSE m

RECURSIVE FallbackSum(_, _, _)
FallbackSum(subs, c, i) ==
    IF i > Len(subs) THEN Zero
    ELSE RatAdd(IF subs[i].currency = c THEN AmountWithMonthlyFallback(subs[i]) ELSE Zero,
                FallbackSum(subs, c, i + 1))

\* C14: a record whose frequency is missing or not one of the six values is
\* counted as monthly, so every bucket amount is a number.
C14_UnknownFrequencyIsMonthly ==
    loaded =>
        \A c \in DOMAIN totals.total :
            /\ ~IsNaN(totals.total[c])
            /\ totals.total[c] = FallbackSum(subscriptions, c, 1)

-----------------------------------------------------------------------------
(* Both core operations applied to their inputs *)

CoreDates == { Date(2023, 5, 15), Date(2024, 0, 31), Date(2024, 1, 29), Date(2024, 11, 25) }

InitCore ==
    /\ IdleIndex
    /\ freqArg \in FrequencyValues
    /\ fromDate \in CoreDates
    /\ nextDate = NoDate
    /\ nextFromCurrent = NoDate
    /\ IdleForm
    /\ stored \in { <<r>> : r \in Records }
    /\ loaded = FALSE
    /\ subscriptions = <<>>
    /\ totals = EmptyTotals

NextCore ==
    \/ ApplyNextRenewalDate
    \/ ApplyNextRenewalFromCurrent
    \/ loadSubscriptions

SpecCore == InitCore /\ [][NextCore]_vars

\* C18: neither operation changes its input: the anchor date given to the
\* renewal helpers keeps its value, and the list and records given to the
\* aggregation are the same after it.
C18_InputsUnchanged ==
    [][ /\ fromDate' = fromDate
        /\ stored' = stored
        /\ loaded' => subscriptions' = stored ]_vars

C18_Witness ==
    /\ fromDate = Date(2024, 0, 31)
    /\ freqArg = "monthly"
    /\ nextDate = Date(2024, 2, 2)
    /\ nextFromCurrent = Date(2024, 2, 2)
    /\ loaded
    /\ Len(subscriptions) = 1

\* C19: a submit while no subscription is being edited appends exactly one
\* record, with the submitted data and an id no existing record has, at
\* the end of the list; the records already there keep fields and position.
C19_SubmitAppends ==
    (lastOp.op = "submit" /\ lastOp.editing = NoEditing) =>
        LET n == Len(lastOp.before) IN
        /\ Len(indexSubscriptions) = n + 1
        /\ SubSeq(indexSubscriptions, 1, n) = lastOp.before
        /\ indexSubscriptions[n + 1].name = lastOp.data.name
        /\ indexSubscriptions[n + 1].renewalDate = lastOp.data.renewalDate
        /\ \A i \in 1..n : lastOp.before[i].id # indexSubscriptions[n + 1].id

C19_Witness ==
    /\ lastOp.op = "submit"
    /\ lastOp.editing = NoEditing
    /\ Len(lastOp.before) >= 2
    /\ Len(indexSubscriptions) = Len(lastOp.before) + 1

\* C20: a submit while a subscription is being edited puts the submitted
\* data, under the same id, in the place of the one record with the edited
\* subscription's id; every other record and the length stay as they were.
C20_SubmitReplaces ==
    (lastOp.op = "submit" /\ lastOp.editing # NoEditing) =>
        LET n == Len(lastOp.before) IN
        /\ Len(indexSubscriptions) = n
        /\ Cardinality({ i \in 1..n : lastOp.before[i].id = lastOp.editing.id }) = 1
        /\ \A i \in 1..n :
              indexSubscriptions[i] =
                  IF lastOp.before[i].id = lastOp.editing.id
                  THEN WithId(lastOp.data, lastOp.editing.id)
                  ELSE lastOp.before[i]

\* the same submit when the edited record is still in the list
C20_ReplacesWhenPresent ==
    (/\ lastOp.op = "submit"
     /\ lastOp.editing # NoEditing
     /\ \E i \in 1..Len(lastOp.before) : lastOp.before[i].id = lastOp.editing.id)
        => C20_SubmitReplaces

\* ids no record of the list carries
AbsentIds == { <<"stored", 3>>, generateId(MaxSaves + 1) }

\* r is b without the records whose id is id: the others, in b's order
IsWithout(r, b, id) ==
    LET hits(i) == Cardinality({ j \in 1..i : b[j].id = id }) IN
    /\ Len(r) = Len(b) - hits(Len(b))
    /\ \A i \in 1..Len(b) : b[i].id # id => r[i - hits(i)] = b[i]

\* C21: a delete removes the records with the given id and nothing else, the
\* remaining records keep fields and relative order; the filter applied
\* with an id no record has gives the list unchanged.
C21_DeleteRemovesOnlyThatId ==
    /\ lastOp.op = "delete" =>
          /\ IsWithout(indexSubscriptions, lastOp.before, lastOp.id)
          /\ \A i \in 1..Len(indexSubscriptions) : indexSubscriptions[i].id # lastOp.id
    /\ \A id \in AbsentIds : withoutId(indexSubscriptions, id) = indexSubscriptions

C21_Witness ==
    /\ lastOp.op = "delete"
    /\ Len(lastOp.before) = 3
    /\ lastOp.before[2].id = lastOp.id
    /\ Len(indexSubscriptions) = 2

\* the list a getItem of the item followed by JSON.parse would give
StoredList(item) == IF item.present THEN JSONparse(item) ELSE <<>>

\* C22: once the load issued at mount and every write have completed, the
\* list stored under 'subscriptions' is the in-memory list (as serialised).
C22_StorageMatchesMemory ==
    (~pendingLoad.pending /\ pendingWrites = <<>>) =>
        StoredList(storageItem) = JSONparse(JSONstringify(indexSubscriptions))

\* C23: Save pressed in the edit form right after it was opened, no field
\* touched, submits the record the form was opened on, field by field.
C23_SaveUntouchedKeepsRecord ==
    [][ (/\ lastEvent = "mount"
         /\ lastEvent' = "submit"
         /\ subscription # NoSubscription)
        => /\ submitted'.name = subscription.name
           /\ submitted'.price = subscription.price
           /\ submitted'.frequency = subscription.frequency
           /\ submitted'.renewalDate = subscription.renewalDate
           /\ submitted'.iconUrl = subscription.iconUrl ]_vars

\* the same, for the renewal date alone and for the icon alone
C23_RenewalDateKept ==
    [][ (lastEvent = "mount" /\ lastEvent' = "submit" /\ subscription # NoSubscription)
        => submitted'.renewalDate = subscription.renewalDate ]_vars

C23_IconKept ==
    [][ (lastEvent = "mount" /\ lastEvent' = "submit" /\ subscription # NoSubscription)
        => submitted'.iconUrl = subscription.iconUrl ]_vars

\* C24: in the edit form a press of the frequency button that is already
\* selected leaves the renewal date as it was, so repeated presses give the
\* date a single press gives.
C24_SameFrequencyPressKeepsDate ==
    [][ (/\ mounted
         /\ subscription # NoSubscription
         /\ frequency' = frequency
         /\ lastEvent' = "frequencySame"
         /\ now' = now)
        => renewalDate' = renewalDate ]_vars

\* C25: at most one search timer is pending; and with no timer pending after
\* the name was changed and left non-empty, the icon results are the ones
\* built from the name as it is now and isSearching is false.
C25_Debounced ==
    /\ Cardinality(timers) <= 1
    /\ (/\ mounted
        /\ lastEvent # "mount"
        /\ trim(name) # <<>>
        /\ timers = {})
       => /\ iconResults = IconOptions(name)
          /\ ~isSearching

C25_Witness ==
    /\ mounted
    /\ timerCount >= 2
    /\ timers = {}
    /\ name = <<"N", " ">>
    /\ iconResults = IconOptions(name)
    /\ lastEvent = "timer"

\* C26: while the name is empty or whitespace the icon results are empty and
\* isSearching is false, whatever timer was pending when it was cleared.
C26_ClearedNameKeepsNoResults ==
    (mounted /\ trim(name) = <<>>) => (iconResults = <<>> /\ ~isSearching)

\* C27: every record the form submits has a finite price >= 0, whatever was
\* typed into the price field.
C27_SubmittedPriceFiniteNonNegative ==
    lastEvent = "submit" =>
        (submitted.price.kind = "number" /\ ~submitted.price.negative)

\* the same for texts shorter than the first integer beyond the double range
C27_ShortPriceFiniteNonNegative ==
    (lastEvent = "submit" /\ Len(priceText) < Len(DoubleOverflow)) =>
        (submitted.price.kind = "number" /\ ~submitted.price.negative)

\* a step of selectDate (no other handler leaves "selectDate" as the last
\* event, and the clock does not move during a handler)
SelectDateStep == lastEvent' = "selectDate" /\ now' = now /\ pressedDate' # NoDate

\* C28: a calendar day before today is rejected, renewalDate and the
\* picker stay as they were; today or a later day becomes renewalDate and
\* the picker closes.
C28_SelectDate ==
    [][ SelectDateStep =>
          IF DateLess(pressedDate', now)
          THEN renewalDate' = renewalDate /\ showDatePicker' = showDatePicker
          ELSE renewalDate' = pressedDate' /\ ~showDatePicker' ]_vars

C28_Witness ==
    /\ lastEvent = "selectDate"
    /\ DateLess(pressedDate, now)
    /\ showDatePicker
    /\ renewalDate # pressedDate
    /\ ticks > 0

\* months since year 0 of the month a Date lies in
MonthIndex(dt) == dt.year * 12 + dt.month

\* C29: 'next' shows the month after the one shown, 'prev' the month
\* before it, whatever the day of currentMonth; so 'next' then 'prev'
\* shows the first month again.
C29_ChangeMonthByOne ==
    [][ /\ lastEvent' = "next" => MonthIndex(currentMonth') = MonthIndex(currentMonth) + 1
        /\ lastEvent' = "prev" => MonthIndex(currentMonth') = MonthIndex(currentMonth) - 1 ]_vars

\* the same when currentMonth is on a day every month has
C29_ChangeMonthByOneUpTo28 ==
    [][ currentMonth.date <= 28 =>
        /\ lastEvent' = "next" => MonthIndex(currentMonth') = MonthIndex(currentMonth) + 1
        /\ lastEvent' = "prev" => MonthIndex(currentMonth') = MonthIndex(currentMonth) - 1 ]_vars

\* C30: whatever was pressed before, a subscription is marked as edited
\* only while the form is visible; so '+ Add' shows the form with nothing
\* being edited, and a submit from that form appends the new record.
C30_EditingOnlyWhileVisible ==
    /\ editingSubscription # NoEditing => isFormVisible
    /\ [][ /\ editingSubscription' # NoEditing => isFormVisible'
           /\ lastOp'.op = "add" => isFormVisible' /\ editingSubscription' = NoEditing
           /\ (lastOp.op = "add" /\ lastOp'.op = "submit") =>
                 indexSubscriptions' =
                     Append(indexSubscriptions, WithId(lastOp'.data, generateId(saves))) ]_vars

C30_Witness ==
    /\ lastOp.op = "add"
    /\ isFormVisible
    /\ editingSubscription = NoEditing
    /\ saves >= 1
    /\ Len(indexSubscriptions) >= 1

====
